---- MODULE Spec2Model ----
(***************************************************************************)
(* Order matching and settlement core of the fractional bond trading       *)
(* platform: SimpleOrderbookService (orderbook/simple-orderbook.service)   *)
(* driven by OrdersService.createOrder and OrdersController.cancelOrder.   *)
(*                                                                         *)
(* The database tables are the state: orders, trades, positions and        *)
(* portfolios (cash).  Money and prices are integers.  The position's      *)
(* avgPricePerUnit column is written by updatePositions but read by no     *)
(* operation of the core, and is left out of the state.  The tables take   *)
(* the rows they are given: a trade row is kept with the order id or the   *)
(* price the code hands over, also when that is undefined or null.         *)
(***************************************************************************)
EXTENDS Integers, Sequences, FiniteSets, TLC

\* ---------------------------------------------------------------- bounds
NumUsers == 2
MaxPrice == 2
MaxQty == 2
MaxOrders == 3
\* order bound of the deeper, narrower specification SpecDeep
MaxDeepOrders == 4
\* addOrder calls of the interleaved specification SpecAsync
MaxCalls == 2
\* order bound of SpecApi, where every cancel request is answered
MaxApiOrders == 3

Users == 1..NumUsers
Bonds == {1}
Prices == 1..MaxPrice
Quantities == 1..MaxQty
Sides == {"BUY", "SELL"}
OrderTypes == {"MARKET", "LIMIT"}

\* initial holdings drawn per user: no cash or InitCash, no position record
\* or a record of InitUnits
InitCash == 4
InitUnits == 2

\* ------------------------------------------------- values of absent fields
\* priceLimit of an order created without one (MARKET)
NoPrice == -1
\* createdAt of an entity that has not been inserted yet
UndefinedDate == 0
\* id of an entity that has not been inserted yet
NoId == 0

\* orders, trades, positions, cash: the tables; now: the database clock;
\* calls: the addOrder calls in flight, each with its entities and the place
\* where it awaits; response: what the request answered last gave back
VARIABLES orders, trades, positions, cash, now, calls, response,
          marketMakers, lendingOffers, repoPositions
vars == <<orders, trades, positions, cash, now, calls, response,
          marketMakers, lendingOffers, repoPositions>>

\* the tables of the market-maker and the repo module
otherTables == <<marketMakers, lendingOffers, repoPositions>>

\* ------------------------------------------------------------ entities
\* Position row of one portfolio and bond: exists is FALSE when there is no row
NoPosition == [exists |-> FALSE, qtyUnits |-> 0]
Position(q) == [exists |-> TRUE, qtyUnits |-> q]

\* OrdersService.createOrder: the entity handed to addOrder.  The database
\* assigns id and createdAt when the entity is saved, so it has neither while
\* it is matched; qtyFilledUnits is taken at its column default 0.
CreateOrder(userId, bondId, side, orderType, priceLimit, qtyUnits) ==
  [ id |-> NoId, userId |-> userId, bondId |-> bondId, side |-> side,
    orderType |-> orderType, priceLimit |-> priceLimit, qtyUnits |-> qtyUnits,
    qtyFilledUnits |-> 0, status |-> "OPEN", createdAt |-> UndefinedDate ]

\* `x || 0` on a price, and a null price where a number is computed with
OrZero(p) == IF p = NoPrice THEN 0 ELSE p

\* `a <= b` on two dates: a comparison with undefined is false
DateLE(a, b) == a # UndefinedDate /\ b # UndefinedDate /\ a <= b

\* ------------------------------------------------------------- responses
\* What a request gave back: the operation, the id of the order it answers
\* with or was asked about, the requesting user, and the result: "order"
\* when createOrder returns the order, the message of the Error it throws,
\* "true" or "false" from cancelOrder; and the events the request emitted.
NoUser == 0
NoResponse ==
  [ op |-> "none", orderId |-> NoId, userId |-> NoUser, result |-> "none",
    events |-> {} ]
Response(op, orderId, userId, result, events) ==
  [ op |-> op, orderId |-> orderId, userId |-> userId, result |-> result,
    events |-> events ]

\* ---------------------------------------------------------- validateOrder
\* the Error validateOrder throws for an order of that side
ValidationError(order) ==
  IF order.side = "BUY" THEN "Insufficient cash balance"
  ELSE "Insufficient bond position"

\* validateOrder asking only that the seller has a position row, whatever
\* its quantity: a faulty variant, to test C15 against
ValidateOrderAnyPosition(order, pos, csh) ==
  IF order.side = "BUY"
    THEN ~(csh[order.userId] < OrZero(order.priceLimit) * order.qtyUnits)
    ELSE pos[order.userId][order.bondId].exists

\* validateOrder with the required amount taken per unit, the quantity
\* forgotten: a faulty variant, to test C13 against
ValidateOrderPerUnit(order, pos, csh) ==
  IF order.side = "BUY"
    THEN ~(csh[order.userId] < OrZero(order.priceLimit))
    ELSE LET position == pos[order.userId][order.bondId]
         IN  ~(~position.exists \/ position.qtyUnits < order.qtyUnits)

\* TRUE when validateOrder returns, FALSE when it throws
ValidateOrder(order, pos, csh) ==
  IF order.side = "BUY"
    THEN ~(csh[order.userId] < OrZero(order.priceLimit) * order.qtyUnits)
    ELSE LET position == pos[order.userId][order.bondId]
         IN  ~(~position.exists \/ position.qtyUnits < order.qtyUnits)

\* ------------------------------------------------------------- matchOrder
OppositeSide(side) == IF side = "BUY" THEN "SELL" ELSE "BUY"

\* p < q in the database's ordering of a nullable column: null is above
\* every value
PriceBelow(p, q) == p # NoPrice /\ (q = NoPrice \/ p < q)

\* ORDER BY priceLimit (DESC for BUY, ASC for SELL), createdAt ASC
OrderedBefore(a, b, side) ==
  \/ (side = "BUY" /\ PriceBelow(b.priceLimit, a.priceLimit))
  \/ (side = "SELL" /\ PriceBelow(a.priceLimit, b.priceLimit))
  \/ (a.priceLimit = b.priceLimit /\ a.createdAt < b.createdAt)
  \/ (a.priceLimit = b.priceLimit /\ a.createdAt = b.createdAt /\ a.id < b.id)

RECURSIVE SortOrders(_, _, _)
SortOrders(ords, ids, side) ==
  IF ids = {} THEN <<>>
  ELSE LET first == CHOOSE i \in ids :
                      \A j \in ids \ {i} : OrderedBefore(ords[i], ords[j], side)
       IN  <<ords[first]>> \o SortOrders(ords, ids \ {first}, side)

\* orderRepository.find({ where: {bondId, side, status: 'OPEN'}, order: ... })
FindOpenOrders(ords, bondId, side) ==
  SortOrders(ords,
             { i \in 1..Len(ords) : /\ ords[i].bondId = bondId
                                    /\ ords[i].side = side
                                    /\ ords[i].status = "OPEN" },
             side)

\* canMatch with its price test dropped: a faulty variant, to test C7 against
CanMatchAnyPrice(order, oppositeOrder) == TRUE

CanMatch(order, oppositeOrder) ==
  IF order.orderType = "MARKET" THEN TRUE
  ELSE IF order.side = "BUY"
         THEN OrZero(order.priceLimit) >= OrZero(oppositeOrder.priceLimit)
         ELSE OrZero(order.priceLimit) <= OrZero(oppositeOrder.priceLimit)

\* ----------------------------------------------------------- executeTrade
Min(a, b) == IF a <= b THEN a ELSE b

\* the whole remainder of the first argument, whatever the second has left:
\* a faulty variant, to test C32 against
TradeQtyOfFirstArgument(buyOrder, sellOrder) ==
  buyOrder.qtyUnits - buyOrder.qtyFilledUnits

\* tradeQty = Math.min(remainingBuyQty, remainingSellQty)
TradeQty(buyOrder, sellOrder) ==
  Min(buyOrder.qtyUnits - buyOrder.qtyFilledUnits,
      sellOrder.qtyUnits - sellOrder.qtyFilledUnits)

\* the first argument's limit price whichever order was placed first: a
\* faulty variant, to test C6 against
TradePriceOfFirstArgument(buyOrder, sellOrder) == buyOrder.priceLimit

\* the limit price of the order that was placed first
TradePrice(buyOrder, sellOrder) ==
  IF DateLE(buyOrder.createdAt, sellOrder.createdAt)
    THEN buyOrder.priceLimit
    ELSE sellOrder.priceLimit

\* tradeRepository.create: the entity has no id before it is saved
CreateTrade(buyOrder, sellOrder, price, qty) ==
  [ id |-> NoId, buyOrderId |-> buyOrder.id, sellOrderId |-> sellOrder.id,
    bondId |-> buyOrder.bondId, pricePerUnit |-> price, qtyUnits |-> qty ]

\* the save of a trade putting the row before the rows of the log: a
\* faulty variant, to test C27 against
InsertTradeFirst(trds, trade) ==
  <<[trade EXCEPT !.id = Len(trds) + 1]>> \o trds

\* tradeRepository.save of a new entity: the insert adds a row, with the
\* next value of the generated primary key as its id
InsertTrade(trds, trade) ==
  Append(trds, [trade EXCEPT !.id = Len(trds) + 1])

\* updatePositions, first half: the row of buyOrder's user grows by qty
UpdateBuyerPosition(pos, buyOrder, qty) ==
  LET found == pos[buyOrder.userId][buyOrder.bondId]
      buyerPosition == IF found.exists THEN found ELSE Position(0)
  IN  [pos EXCEPT ![buyOrder.userId][buyOrder.bondId] =
         Position(buyerPosition.qtyUnits + qty)]

\* updatePositions saving the seller's row whatever its quantity, never
\* removing it: a faulty variant, to test C30 against
UpdateSellerPositionKeepRow(pos, sellOrder, qty) ==
  LET sellerPosition == pos[sellOrder.userId][sellOrder.bondId]
  IN  IF sellerPosition.exists
        THEN [pos EXCEPT ![sellOrder.userId][sellOrder.bondId] =
                Position(sellerPosition.qtyUnits - qty)]
        ELSE pos

\* updatePositions, second half: the row of sellOrder's user, when there is
\* one, shrinks by qty and is removed at or below zero
UpdateSellerPosition(pos, sellOrder, qty) ==
  LET sellerPosition == pos[sellOrder.userId][sellOrder.bondId]
  IN  IF sellerPosition.exists
        THEN IF sellerPosition.qtyUnits - qty <= 0
               THEN [pos EXCEPT ![sellOrder.userId][sellOrder.bondId] = NoPosition]
               ELSE [pos EXCEPT ![sellOrder.userId][sellOrder.bondId] =
                       Position(sellerPosition.qtyUnits - qty)]
        ELSE pos

UpdatePositions(pos, buyOrder, sellOrder, qty) ==
  UpdateSellerPosition(UpdateBuyerPosition(pos, buyOrder, qty), sellOrder, qty)

\* price * qty
TradeAmount(price, qty) == OrZero(price) * qty

DebitBuyer(csh, buyOrder, price, qty) ==
  [csh EXCEPT ![buyOrder.userId] = @ - TradeAmount(price, qty)]

CreditSeller(csh, sellOrder, price, qty) ==
  [csh EXCEPT ![sellOrder.userId] = @ + TradeAmount(price, qty)]

UpdatePortfolios(csh, buyOrder, sellOrder, price, qty) ==
  CreditSeller(DebitBuyer(csh, buyOrder, price, qty), sellOrder, price, qty)

\* A matching context: the incoming order entity and the tables it writes.
\* executeTrade(buyOrder, sellOrder) adds its fill to both entities, but the
\* sellOrder entity is never saved, so only buyOrder's fill is kept.
ExecuteTrade(ctx, buyOrder, sellOrder) ==
  LET tradeQty == TradeQty(buyOrder, sellOrder)
      tradePrice == TradePrice(buyOrder, sellOrder)
  IN  [ order |-> [buyOrder EXCEPT !.qtyFilledUnits = @ + tradeQty],
        trades |-> InsertTrade(ctx.trades,
                          CreateTrade(buyOrder, sellOrder, tradePrice, tradeQty)),
        positions |-> UpdatePositions(ctx.positions, buyOrder, sellOrder, tradeQty),
        cash |-> UpdatePortfolios(ctx.cash, buyOrder, sellOrder,
                                  tradePrice, tradeQty) ]

\* the for-loop of matchOrder over the opposite orders it loaded
RECURSIVE MatchLoop(_, _)
MatchLoop(ctx, oppositeOrders) ==
  IF oppositeOrders = <<>> THEN ctx
  ELSE LET oppositeOrder == Head(oppositeOrders)
       IN  IF ctx.order.qtyFilledUnits >= ctx.order.qtyUnits THEN ctx
           ELSE IF oppositeOrder.qtyFilledUnits >= oppositeOrder.qtyUnits
             THEN MatchLoop(ctx, Tail(oppositeOrders))
           ELSE IF CanMatch(ctx.order, oppositeOrder)
             THEN MatchLoop(ExecuteTrade(ctx, ctx.order, oppositeOrder),
                            Tail(oppositeOrders))
           ELSE MatchLoop(ctx, Tail(oppositeOrders))

MatchOrder(ctx, ords) ==
  MatchLoop(ctx, FindOpenOrders(ords, ctx.order.bondId,
                                OppositeSide(ctx.order.side)))

\* ----------------------------------------------------------- getOrderBook
\* levels shown per side
BookDepth == 10

\* level.quantity: the remainders of the orders of one level, added up
RECURSIVE LevelQuantity(_)
LevelQuantity(levelOrders) ==
  IF levelOrders = <<>> THEN 0
  ELSE Head(levelOrders).qtyUnits - Head(levelOrders).qtyFilledUnits
       + LevelQuantity(Tail(levelOrders))

\* the sort of the levels by `b.price - a.price` (BUY) or `a.price - b.price`
\* (SELL); a null price counts as 0 in the subtraction
RECURSIVE SortLevels(_, _)
SortLevels(prices, side) ==
  IF prices = {} THEN <<>>
  ELSE LET first == CHOOSE p \in prices : \A q \in prices \ {p} :
                      IF side = "BUY" THEN OrZero(p) > OrZero(q)
                                      ELSE OrZero(p) < OrZero(q)
       IN  <<first>> \o SortLevels(prices \ {first}, side)

\* getOrderBookSide: the OPEN orders of the side grouped into price levels
GetOrderBookSide(ords, bondId, side) ==
  LET found == FindOpenOrders(ords, bondId, side)
      prices == { found[i].priceLimit : i \in 1..Len(found) }
      AtPrice(p) == SelectSeq(found, LAMBDA o : o.priceLimit = p)
      sortedLevels == SortLevels(prices, side)
  IN  [ k \in 1..Len(sortedLevels) |->
          [ price |-> sortedLevels[k],
            quantity |-> LevelQuantity(AtPrice(sortedLevels[k])),
            orders |-> AtPrice(sortedLevels[k]) ] ]

\* levels.slice(0, 10)
TopLevels(levels) ==
  IF Len(levels) <= BookDepth THEN levels ELSE SubSeq(levels, 1, BookDepth)

\* GET api/orders/book/:bondId: both sides and the price of the last trade
GetOrderBook(ords, trds, bondId) ==
  LET ofBond == SelectSeq(trds, LAMBDA t : t.bondId = bondId)
  IN  [ bids |-> TopLevels(GetOrderBookSide(ords, bondId, "BUY")),
        asks |-> TopLevels(GetOrderBookSide(ords, bondId, "SELL")),
        lastPrice |-> IF ofBond = <<>> THEN NoPrice
                      ELSE ofBond[Len(ofBond)].pricePerUnit ]

\* --------------------------------------------------------------- addOrder
\* status of the incoming order after matching
StatusAfterMatch(order) ==
  IF order.qtyFilledUnits = order.qtyUnits THEN "EXECUTED"
  ELSE IF order.qtyFilledUnits > 0 THEN "PARTIAL"
  ELSE IF order.orderType = "MARKET" THEN "CANCELLED"
  ELSE "OPEN"

\* orderRepository.save of a new entity: the insert assigns id and createdAt
InsertOrder(ords, order, time) ==
  Append(ords, [order EXCEPT !.id = Len(ords) + 1, !.createdAt = time])

TypeOK ==
  /\ \A i \in 1..Len(orders) : orders[i].id = i
  /\ Len(orders) <= MaxDeepOrders
  /\ \A u \in Users : cash[u] \in Int
  /\ now <= Len(orders) + 1

\* ------------------------------------------------------- calls in flight
Calls == 1..MaxCalls
\* the four ledger writes of one trade
LedgerEffects == {"buyerPosition", "sellerPosition", "buyerCash", "sellerCash"}

\* A call: pc is the database operation it awaits; order is the incoming
\* entity; oppositeOrders what is left of the loaded list, its head being
\* the sellOrder of the trade in hand; tradePrice and tradeQty that trade;
\* position and cashBalance the entity last read; applied the ledger writes
\* done for the trade in hand; error the Error that was thrown; events the
\* events emitted so far.
IdleCall ==
  [ pc |-> "idle", order |-> CreateOrder(1, 1, "BUY", "LIMIT", 1, 1),
    oppositeOrders |-> <<>>, tradePrice |-> 0, tradeQty |-> 0,
    position |-> NoPosition, cashBalance |-> 0, applied |-> {},
    error |-> "none", events |-> {} ]

Init ==
  /\ orders = <<>>
  /\ trades = <<>>
  /\ positions \in [Users -> [Bonds -> {NoPosition, Position(InitUnits)}]]
  /\ cash \in [Users -> {0, InitCash}]
  /\ now = 1
  /\ calls = [c \in Calls |-> IdleCall]
  /\ response = NoResponse
  /\ marketMakers = <<>>
  /\ lendingOffers = <<>>
  /\ repoPositions = <<>>

\* emit('trade.executed') of executeTrade, for the trades a call added
TradeEvents(before, after) ==
  IF Len(after) > Len(before) THEN {"trade.executed"} ELSE {}

\* addOrder matching first and validating afterwards: a faulty variant, to
\* test C17 against
SubmitOrderMatchFirst(userId, bondId, side, orderType, priceLimit, qtyUnits) ==
  /\ LET order == CreateOrder(userId, bondId, side, orderType, priceLimit, qtyUnits)
         ctx == MatchOrder([order |-> order, trades |-> trades,
                            positions |-> positions, cash |-> cash],
                           orders)
     IN  /\ orders' = InsertOrder(orders,
                         [ctx.order EXCEPT !.status =
                            IF ValidateOrder(order, positions, cash)
                              THEN StatusAfterMatch(ctx.order) ELSE "CANCELLED"],
                         now)
         /\ trades' = ctx.trades
         /\ positions' = ctx.positions
         /\ cash' = ctx.cash
         /\ response' = IF ValidateOrder(order, positions, cash)
                          THEN Response("createOrder", Len(orders) + 1, userId,
                                        "order", TradeEvents(trades, ctx.trades)
                                                   \cup {"order.processed"})
                          ELSE Response("createOrder", NoId, userId,
                                        ValidationError(order),
                                        TradeEvents(trades, ctx.trades))
  /\ now' = now + 1
  /\ UNCHANGED <<calls, otherTables>>

\* POST api/orders: createOrder, then addOrder (validate, match, set the
\* status, save; a throw saves the order as CANCELLED)
SubmitOrder(userId, bondId, side, orderType, priceLimit, qtyUnits) ==
  /\ LET order == CreateOrder(userId, bondId, side, orderType, priceLimit, qtyUnits)
     IN  IF ValidateOrder(order, positions, cash)
           THEN LET ctx == MatchOrder([order |-> order, trades |-> trades,
                                       positions |-> positions, cash |-> cash],
                                      orders)
                IN  /\ orders' = InsertOrder(orders,
                                   [ctx.order EXCEPT !.status = StatusAfterMatch(ctx.order)],
                                   now)
                    /\ trades' = ctx.trades
                    /\ positions' = ctx.positions
                    /\ cash' = ctx.cash
                    /\ response' = Response("createOrder", Len(orders) + 1,
                                             userId, "order",
                                             TradeEvents(trades, ctx.trades)
                                               \cup {"order.processed"})
           ELSE /\ orders' = InsertOrder(orders, [order EXCEPT !.status = "CANCELLED"], now)
                /\ response' = Response("createOrder", NoId, userId,
                                         ValidationError(order), {})
                /\ UNCHANGED <<trades, positions, cash>>
  /\ now' = now + 1
  /\ UNCHANGED <<calls, otherTables>>

\* cancelOrder's test: findOne({ id, userId }) finds the order and it is OPEN
Cancellable(ords, orderId, userId) ==
  /\ orderId \in 1..Len(ords)
  /\ ords[orderId].userId = userId
  /\ ords[orderId].status = "OPEN"

\* what cancelOrder returns
CancelResult(ords, orderId, userId) ==
  IF Cancellable(ords, orderId, userId) THEN "true" ELSE "false"

\* cancelOrder cancelling every OPEN order of the user along with the one
\* asked for: a faulty variant, to test C34 against
CancelOrdersOfUser(orderId, userId) ==
  /\ IF Cancellable(orders, orderId, userId)
       THEN /\ orders' = [i \in 1..Len(orders) |->
                            IF orders[i].userId = userId /\ orders[i].status = "OPEN"
                              THEN [orders[i] EXCEPT !.status = "CANCELLED"]
                              ELSE orders[i]]
            /\ response' = Response("cancelOrder", orderId, userId, "true",
                                     {"order.cancelled"})
       ELSE /\ UNCHANGED orders
            /\ response' = Response("cancelOrder", orderId, userId, "false", {})
  /\ UNCHANGED <<trades, positions, cash, now, calls, otherTables>>

\* POST api/orders/:id/cancel
CancelOrder(orderId, userId) ==
  /\ IF Cancellable(orders, orderId, userId)
       THEN /\ orders' = [orders EXCEPT ![orderId].status = "CANCELLED"]
            /\ response' = Response("cancelOrder", orderId, userId,
                                     CancelResult(orders, orderId, userId),
                                     {"order.cancelled"})
       ELSE /\ UNCHANGED orders
            /\ response' = Response("cancelOrder", orderId, userId,
                                     CancelResult(orders, orderId, userId), {})
  /\ UNCHANGED <<trades, positions, cash, now, calls, otherTables>>

\* the inputs: any user, bond, side, price and quantity of the bounded sets
SubmitLimit ==
  /\ Len(orders) < MaxOrders
  /\ \E u \in Users, b \in Bonds, s \in Sides, p \in Prices, q \in Quantities :
       SubmitOrder(u, b, s, "LIMIT", p, q)

SubmitMarket ==
  /\ Len(orders) < MaxOrders
  /\ \E u \in Users, b \in Bonds, s \in Sides, q \in Quantities :
       SubmitOrder(u, b, s, "MARKET", NoPrice, q)

\* the cancel requests that find their order OPEN
Cancel ==
  \E i \in 1..Len(orders), u \in Users :
    Cancellable(orders, i, u) /\ CancelOrder(i, u)

Next == SubmitLimit \/ SubmitMarket \/ Cancel

Spec == Init /\ [][Next]_vars

\* Order submission one call deeper, from one seeding: every user has
\* InitCash, user 1 holds InitUnits of every bond.
InitDeep ==
  /\ orders = <<>>
  /\ trades = <<>>
  /\ positions = [u \in Users |-> [b \in Bonds |->
                     IF u = 1 THEN Position(InitUnits) ELSE NoPosition]]
  /\ cash = [u \in Users |-> InitCash]
  /\ now = 1
  /\ calls = [c \in Calls |-> IdleCall]
  /\ response = NoResponse
  /\ marketMakers = <<>>
  /\ lendingOffers = <<>>
  /\ repoPositions = <<>>

DeepSubmitLimit ==
  /\ Len(orders) < MaxDeepOrders
  /\ \E u \in Users, b \in Bonds, s \in Sides, p \in Prices, q \in Quantities :
       SubmitOrder(u, b, s, "LIMIT", p, q)

DeepSubmitMarket ==
  /\ Len(orders) < MaxDeepOrders
  /\ \E u \in Users, b \in Bonds, s \in Sides, q \in Quantities :
       SubmitOrder(u, b, s, "MARKET", NoPrice, q)

NextDeep == DeepSubmitLimit \/ DeepSubmitMarket

SpecDeep == InitDeep /\ [][NextDeep]_vars

\* --------------------------------------------- every request and its answer
\* the cancel requests of any user for any order id, also one past the last
CancelAny ==
  \E i \in 1..(Len(orders) + 1), u \in Users : CancelOrder(i, u)

ApiSubmitLimit ==
  /\ Len(orders) < MaxApiOrders
  /\ \E u \in Users, b \in Bonds, s \in Sides, p \in Prices, q \in Quantities :
       SubmitOrder(u, b, s, "LIMIT", p, q)

ApiSubmitMarket ==
  /\ Len(orders) < MaxApiOrders
  /\ \E u \in Users, b \in Bonds, s \in Sides, q \in Quantities :
       SubmitOrder(u, b, s, "MARKET", NoPrice, q)

NextApi == ApiSubmitLimit \/ ApiSubmitMarket \/ CancelAny

SpecApi == InitDeep /\ [][NextApi]_vars

\* ------------------------------------------------------- SIP early exit
\* POST early-exit: SipService.processEarlyExitRequest.  The position is
\* checked; attemptSipRecycling finds no pool row (rows of the SIP pool are
\* created by executeSipPlans for active SIP plans, and there is none) and
\* returns success: false, whatever allowRecycling is; the fall-back saves a
\* MARKET SELL order with status OPEN straight into the orders table.
EarlyExit(userId, bondId, qtyUnits, allowRecycling) ==
  /\ LET position == positions[userId][bondId]
     IN  IF ~position.exists \/ position.qtyUnits < qtyUnits
           THEN /\ response' = Response("early-exit", NoId, userId,
                                         "Insufficient position for early exit", {})
                /\ UNCHANGED <<orders, now>>
           ELSE /\ orders' = InsertOrder(orders,
                                 CreateOrder(userId, bondId, "SELL", "MARKET",
                                             NoPrice, qtyUnits),
                                 now)
                /\ now' = now + 1
                /\ response' = Response("early-exit", NoId, userId, "executed", {})
  /\ UNCHANGED <<trades, positions, cash, calls, otherTables>>

SipEarlyExit ==
  /\ Len(orders) < MaxOrders
  /\ \E u \in Users, b \in Bonds, q \in Quantities, r \in BOOLEAN :
       EarlyExit(u, b, q, r)

NextSip == SubmitLimit \/ SubmitMarket \/ Cancel \/ SipEarlyExit

SpecSip == Init /\ [][NextSip]_vars

\* ------------------------------------------------------ market makers
\* MarketMakerService.  A market maker is registered for a user with the
\* obligations of its tier and status PENDING, approved once, and then
\* submits two-sided quotes: the bid and the ask are saved as OPEN LIMIT
\* orders straight into the orders table, after the market maker's OPEN
\* orders of the bond were set to CANCELLED.
Tiers == {"BRONZE"}

\* getObligationsByTier
MinSpreadBps(tier) ==
  CASE tier = "SILVER" -> 15 [] tier = "GOLD" -> 10 [] tier = "PLATINUM" -> 5
    [] OTHER -> 20
MinSizeUnits(tier) ==
  CASE tier = "SILVER" -> 2000 [] tier = "GOLD" -> 5000 [] tier = "PLATINUM" -> 10000
    [] OTHER -> 1000

\* the sizes a quote is submitted with: below and at the BRONZE minimum
QuoteSizes == {1, MinSizeUnits("BRONZE")}

\* registerMarketMaker
RegisterMarketMaker(userId, tier) ==
  /\ marketMakers' = Append(marketMakers,
       [ id |-> Len(marketMakers) + 1, userId |-> userId, tier |-> tier,
         minSpreadBps |-> MinSpreadBps(tier), minSizeUnits |-> MinSizeUnits(tier),
         status |-> "PENDING" ])
  /\ response' = Response("registerMarketMaker", NoId, userId, "marketMaker",
                           {"marketmaker.registered"})
  /\ UNCHANGED <<orders, trades, positions, cash, now, calls,
                 lendingOffers, repoPositions>>

\* approveMarketMaker
ApproveMarketMaker(marketMakerId) ==
  /\ IF /\ marketMakerId \in 1..Len(marketMakers)
        /\ marketMakers[marketMakerId].status = "PENDING"
       THEN /\ marketMakers' = [marketMakers EXCEPT ![marketMakerId].status = "APPROVED"]
            /\ response' = Response("approveMarketMaker", NoId,
                                     marketMakers[marketMakerId].userId, "true",
                                     {"marketmaker.approved"})
       ELSE /\ UNCHANGED marketMakers
            /\ response' = Response("approveMarketMaker", NoId, NoUser, "false", {})
  /\ UNCHANGED <<orders, trades, positions, cash, now, calls,
                 lendingOffers, repoPositions>>

\* `spreadBps < marketMaker.minSpreadBps`, with
\* spreadBps = ((askPrice - bidPrice) / bidPrice) * 10000 and bidPrice > 0
SpreadBelowMinimum(bidPrice, askPrice, minSpreadBps) ==
  (askPrice - bidPrice) * 10000 < minSpreadBps * bidPrice

\* cancelExistingQuotes: the OPEN orders of the market maker's user for the
\* bond are set to CANCELLED and saved
CancelExistingQuotes(ords, userId, bondId) ==
  [i \in 1..Len(ords) |->
     IF ords[i].userId = userId /\ ords[i].bondId = bondId /\ ords[i].status = "OPEN"
       THEN [ords[i] EXCEPT !.status = "CANCELLED"]
       ELSE ords[i]]

\* what submitQuotes throws, "none" when the quotes are accepted
QuoteError(marketMakerId, bidPrice, askPrice, bidSize, askSize) ==
  IF ~(/\ marketMakerId \in 1..Len(marketMakers)
       /\ marketMakers[marketMakerId].status = "APPROVED")
    THEN "Market maker not found or not approved"
  ELSE IF SpreadBelowMinimum(bidPrice, askPrice, marketMakers[marketMakerId].minSpreadBps)
    THEN "Spread below minimum"
  ELSE IF \/ bidSize < marketMakers[marketMakerId].minSizeUnits
          \/ askSize < marketMakers[marketMakerId].minSizeUnits
    THEN "Order size below minimum"
  ELSE "none"

\* submitQuotes: orderRepository.save([bidOrder, askOrder]) inserts both
\* orders in one save
SubmitQuotes(marketMakerId, bondId, bidPrice, askPrice, bidSize, askSize) ==
  /\ LET error == QuoteError(marketMakerId, bidPrice, askPrice, bidSize, askSize)
     IN  IF error # "none"
           THEN /\ response' = Response("submitQuotes", NoId, NoUser, error, {})
                /\ UNCHANGED <<orders, now>>
           ELSE LET userId == marketMakers[marketMakerId].userId
                    bidOrder == CreateOrder(userId, bondId, "BUY", "LIMIT", bidPrice, bidSize)
                    askOrder == CreateOrder(userId, bondId, "SELL", "LIMIT", askPrice, askSize)
                IN  /\ orders' = InsertOrder(
                                   InsertOrder(CancelExistingQuotes(orders, userId, bondId),
                                               bidOrder, now),
                                   askOrder, now)
                    /\ now' = now + 1
                    /\ response' = Response("submitQuotes", NoId, userId, "success",
                                             {"marketmaker.quotes.submitted"})
  /\ UNCHANGED <<trades, positions, cash, calls, otherTables>>

MaxMarketMakers == 1
MaxQuotedOrders == 4

MmRegister ==
  /\ Len(marketMakers) < MaxMarketMakers
  /\ \E u \in Users, t \in Tiers : RegisterMarketMaker(u, t)

MmApprove ==
  \E m \in 1..Len(marketMakers) :
    marketMakers[m].status = "PENDING" /\ ApproveMarketMaker(m)

MmSubmitQuotes ==
  /\ Len(orders) + 2 <= MaxQuotedOrders
  /\ \E m \in 1..Len(marketMakers), b \in Bonds, bid \in Prices, ask \in Prices,
        bs \in QuoteSizes, as \in QuoteSizes :
       SubmitQuotes(m, b, bid, ask, bs, as)

NextMm == SubmitLimit \/ SubmitMarket \/ Cancel \/ MmRegister \/ MmApprove
            \/ MmSubmitQuotes

SpecMm == InitDeep /\ [][NextMm]_vars

\* ---------------------------------------------------------- repo lending
\* RepoService.  A holder offers units of a bond for lending; a borrow
\* request takes the cheapest ACTIVE offer of the bond with the requested
\* tenor, moves the requested units from the lender's position to the
\* borrower's and debits CASH collateral from the borrower; closing the repo
\* position moves the units back, credits the borrower the collateral less
\* the fee and the lender the fee.  Fee rates and haircuts are in per cent.
HaircutPct == 2       \* HAIRCUT_RATES['AAA'], the rating of the seeded bond
UnitValue == 1000     \* bondValue = qtyUnits * 1000
TenorDays == {365}
FeeRates == {0, 10}
CollateralTypes == {"CASH", "SECURITIES"}

\* calculateCollateralRequirement: bondValue * (1 + haircut)
RequiredCollateral(bondId, qtyUnits) ==
  (qtyUnits * UnitValue * (100 + HaircutPct)) \div 100

\* the collateral a borrow request offers: the requirement of 1 and of 2 units
CollateralAmounts == { RequiredCollateral(1, q) : q \in Quantities }

\* collateralAmount * feeRate * daysHeld / 365 (exact for the fee rates and
\* tenors above)
FeeAmount(collateralAmount, feeRate, daysHeld) ==
  (collateralAmount * feeRate * daysHeld) \div (100 * 365)

\* createLendingOffer
CreateLendingOffer(lenderUserId, bondId, qtyUnits, feeRatePerAnnum, minTenorDays) ==
  /\ LET lenderPosition == positions[lenderUserId][bondId]
     IN  IF ~lenderPosition.exists \/ lenderPosition.qtyUnits < qtyUnits
           THEN /\ response' = Response("createLendingOffer", NoId, lenderUserId,
                                         "Insufficient bond position for lending", {})
                /\ UNCHANGED lendingOffers
           ELSE /\ lendingOffers' = Append(lendingOffers,
                     [ id |-> Len(lendingOffers) + 1, lenderUserId |-> lenderUserId,
                       bondId |-> bondId, qtyUnits |-> qtyUnits,
                       feeRatePerAnnum |-> feeRatePerAnnum,
                       minTenorDays |-> minTenorDays, status |-> "ACTIVE" ])
                /\ response' = Response("createLendingOffer", NoId, lenderUserId,
                                         "lendingOffer", {"lending.offer.created"})
  /\ UNCHANGED <<orders, trades, positions, cash, now, calls,
                 marketMakers, repoPositions>>

\* findMatchingLendingOffer: the ACTIVE offers of the bond with that tenor
\* that have the lowest fee rate; findOne returns one of them
MatchingLendingOffers(bondId, tenorDays) ==
  LET matching == { i \in 1..Len(lendingOffers) :
                      /\ lendingOffers[i].bondId = bondId
                      /\ lendingOffers[i].status = "ACTIVE"
                      /\ lendingOffers[i].minTenorDays = tenorDays }
  IN  { i \in matching :
          \A j \in matching :
            lendingOffers[i].feeRatePerAnnum <= lendingOffers[j].feeRatePerAnnum }

\* transferBondPosition: the row of fromUserId, when there is one, loses the
\* units and is removed at 0 or below; the row of toUserId, created when
\* missing, gains them
TransferBondPosition(pos, fromUserId, toUserId, bondId, qtyUnits) ==
  LET lenderPosition == pos[fromUserId][bondId]
      removed ==
        IF ~lenderPosition.exists THEN pos
        ELSE [pos EXCEPT ![fromUserId][bondId] =
                IF lenderPosition.qtyUnits - qtyUnits <= 0 THEN NoPosition
                ELSE Position(lenderPosition.qtyUnits - qtyUnits)]
      found == removed[toUserId][bondId]
      borrowerPosition == IF found.exists THEN found ELSE Position(0)
  IN  [removed EXCEPT ![toUserId][bondId] =
         Position(borrowerPosition.qtyUnits + qtyUnits)]

\* updateCollateral: only CASH moves
UpdateCollateral(csh, userId, amount, type, operation) ==
  IF type = "CASH"
    THEN [csh EXCEPT ![userId] = IF operation = "DEBIT" THEN @ - amount ELSE @ + amount]
    ELSE csh

\* the error createBorrowRequest returns, "none" when the request goes through
BorrowError(borrowerUserId, bondId, qtyUnits, tenorDays, collateralAmount, collateralType) ==
  IF MatchingLendingOffers(bondId, tenorDays) = {}
    THEN "No matching lending offer found"
  ELSE IF collateralAmount < RequiredCollateral(bondId, qtyUnits)
    THEN "Insufficient collateral"
  ELSE IF collateralType = "CASH" /\ cash[borrowerUserId] < collateralAmount
    THEN "Insufficient cash balance for collateral"
  ELSE "none"

\* createBorrowRequest
CreateBorrowRequest(borrowerUserId, bondId, qtyUnits, tenorDays, collateralAmount, collateralType) ==
  /\ LET error == BorrowError(borrowerUserId, bondId, qtyUnits, tenorDays,
                              collateralAmount, collateralType)
     IN  IF error # "none"
           THEN /\ response' = Response("createBorrowRequest", NoId, borrowerUserId,
                                         error, {})
                /\ UNCHANGED <<positions, cash, lendingOffers, repoPositions>>
           ELSE \E i \in MatchingLendingOffers(bondId, tenorDays) :
                  LET lendingOffer == lendingOffers[i]
                  IN  /\ repoPositions' = Append(repoPositions,
                            [ id |-> Len(repoPositions) + 1,
                              borrowerUserId |-> borrowerUserId,
                              lenderUserId |-> lendingOffer.lenderUserId,
                              bondId |-> bondId, qtyUnits |-> qtyUnits,
                              collateralAmount |-> collateralAmount,
                              feeRate |-> lendingOffer.feeRatePerAnnum,
                              daysHeld |-> tenorDays, status |-> "ACTIVE" ])
                      /\ positions' = TransferBondPosition(positions,
                                        lendingOffer.lenderUserId, borrowerUserId,
                                        bondId, qtyUnits)
                      /\ cash' = UpdateCollateral(cash, borrowerUserId, collateralAmount,
                                                  collateralType, "DEBIT")
                      /\ lendingOffers' = [lendingOffers EXCEPT ![i].status = "FILLED"]
                      /\ response' = Response("createBorrowRequest", NoId, borrowerUserId,
                                               "success", {"repo.position.created"})
  /\ UNCHANGED <<orders, trades, now, calls, marketMakers>>

\* closeRepoPosition
CloseRepoPosition(repoPositionId) ==
  /\ IF ~(/\ repoPositionId \in 1..Len(repoPositions)
          /\ repoPositions[repoPositionId].status = "ACTIVE")
       THEN /\ response' = Response("closeRepoPosition", NoId, NoUser, "false", {})
            /\ UNCHANGED <<positions, cash, repoPositions>>
       ELSE LET repoPosition == repoPositions[repoPositionId]
                feeAmount == FeeAmount(repoPosition.collateralAmount,
                                       repoPosition.feeRate, repoPosition.daysHeld)
                netCollateral == repoPosition.collateralAmount - feeAmount
            IN  /\ positions' = TransferBondPosition(positions,
                                  repoPosition.borrowerUserId, repoPosition.lenderUserId,
                                  repoPosition.bondId, repoPosition.qtyUnits)
                /\ cash' = UpdateCollateral(
                             UpdateCollateral(cash, repoPosition.borrowerUserId,
                                              netCollateral, "CASH", "CREDIT"),
                             repoPosition.lenderUserId, feeAmount, "CASH", "CREDIT")
                /\ repoPositions' = [repoPositions EXCEPT ![repoPositionId].status = "CLOSED"]
                /\ response' = Response("closeRepoPosition", NoId,
                                         repoPosition.borrowerUserId, "true",
                                         {"repo.position.closed"})
  /\ UNCHANGED <<orders, trades, now, calls, marketMakers, lendingOffers>>

MaxLendingOffers == 1
MaxRepoPositions == 1

RepoLend ==
  /\ Len(lendingOffers) < MaxLendingOffers
  /\ \E u \in Users, b \in Bonds, q \in Quantities, f \in FeeRates, d \in TenorDays :
       CreateLendingOffer(u, b, q, f, d)

RepoBorrow ==
  /\ Len(repoPositions) < MaxRepoPositions
  /\ \E u \in Users, b \in Bonds, q \in Quantities, d \in TenorDays,
        a \in CollateralAmounts, t \in CollateralTypes :
       CreateBorrowRequest(u, b, q, d, a, t)

RepoClose ==
  \E r \in 1..(Len(repoPositions) + 1) : CloseRepoPosition(r)

\* order submission and cancel next to the repo operations
MaxRepoOrders == 2

RepoSubmitLimit ==
  /\ Len(orders) < MaxRepoOrders
  /\ \E u \in Users, b \in Bonds, s \in Sides, p \in Prices, q \in Quantities :
       SubmitOrder(u, b, s, "LIMIT", p, q)

NextRepo == RepoSubmitLimit \/ Cancel \/ RepoLend \/ RepoBorrow \/ RepoClose

SpecRepo == InitDeep /\ [][NextRepo]_vars

\* ------------------------------------------------- addOrder, await by await
\* The same handler with every awaited database operation a step of its own,
\* so that the steps of concurrent requests interleave and an operation can
\* throw.  A step is the operation a call awaits together with the
\* synchronous code that follows it up to the next await.

\* the synchronous head of the for-loop: drop the opposite orders the loop
\* passes over, stop at the one it trades with, <<>> when the loop ends
RECURSIVE NextMatch(_, _)
NextMatch(order, oppositeOrders) ==
  IF oppositeOrders = <<>> THEN <<>>
  ELSE IF order.qtyFilledUnits >= order.qtyUnits THEN <<>>
  ELSE IF Head(oppositeOrders).qtyFilledUnits >= Head(oppositeOrders).qtyUnits
    THEN NextMatch(order, Tail(oppositeOrders))
  ELSE IF CanMatch(order, Head(oppositeOrders)) THEN oppositeOrders
  ELSE NextMatch(order, Tail(oppositeOrders))

\* POST api/orders arrives: createOrder builds the entity, addOrder starts
AsyncCreate(c, userId, bondId, side, orderType, priceLimit, qtyUnits) ==
  /\ calls[c].pc = "idle"
  /\ calls' = [calls EXCEPT ![c] =
       [IdleCall EXCEPT !.pc = "validate",
          !.order = CreateOrder(userId, bondId, side, orderType, priceLimit, qtyUnits)]]
  /\ UNCHANGED <<orders, trades, positions, cash, now, response, otherTables>>

\* validateOrder: the read of the portfolio or position and the test on it
AsyncValidate(c) ==
  /\ calls[c].pc = "validate"
  /\ calls' = IF ValidateOrder(calls[c].order, positions, cash)
                THEN [calls EXCEPT ![c].pc = "find"]
                ELSE [calls EXCEPT ![c].pc = "catch",
                                   ![c].error = ValidationError(calls[c].order)]
  /\ UNCHANGED <<orders, trades, positions, cash, now, response, otherTables>>

\* matchOrder: orderRepository.find loads the opposite orders; the loop runs
\* up to the first trade it makes
AsyncFind(c) ==
  /\ calls[c].pc = "find"
  /\ LET found == NextMatch(calls[c].order,
                    FindOpenOrders(orders, calls[c].order.bondId,
                                   OppositeSide(calls[c].order.side)))
     IN  calls' = [calls EXCEPT ![c].oppositeOrders = found,
                                ![c].pc = IF found = <<>> THEN "save" ELSE "saveTrade"]
  /\ UNCHANGED <<orders, trades, positions, cash, now, response, otherTables>>

\* executeTrade: tradeRepository.save(trade), then both entities' fills grow
AsyncSaveTrade(c) ==
  /\ calls[c].pc = "saveTrade"
  /\ LET buyOrder == calls[c].order
         sellOrder == Head(calls[c].oppositeOrders)
         tradeQty == TradeQty(buyOrder, sellOrder)
         tradePrice == TradePrice(buyOrder, sellOrder)
     IN  /\ trades' = InsertTrade(trades, CreateTrade(buyOrder, sellOrder, tradePrice, tradeQty))
         /\ calls' = [calls EXCEPT ![c].order.qtyFilledUnits = @ + tradeQty,
                                   ![c].tradePrice = tradePrice,
                                   ![c].tradeQty = tradeQty,
                                   ![c].applied = {},
                                   ![c].pc = "findBuyerPosition"]
  /\ UNCHANGED <<orders, positions, cash, now, response, otherTables>>

\* updatePositions: positionRepository.findOne for buyOrder's user
AsyncFindBuyerPosition(c) ==
  /\ calls[c].pc = "findBuyerPosition"
  /\ calls' = [calls EXCEPT
       ![c].position = positions[calls[c].order.userId][calls[c].order.bondId],
       ![c].pc = "saveBuyerPosition"]
  /\ UNCHANGED <<orders, trades, positions, cash, now, response, otherTables>>

\* updatePositions: positionRepository.save(buyerPosition); the insert of a
\* created row throws when the (portfolioId, bondId) row exists by now
AsyncSaveBuyerPosition(c) ==
  /\ calls[c].pc = "saveBuyerPosition"
  /\ LET u == calls[c].order.userId
         b == calls[c].order.bondId
     IN  IF ~calls[c].position.exists /\ positions[u][b].exists
           THEN /\ calls' = [calls EXCEPT ![c].pc = "catch",
                                          ![c].error = "QueryFailedError"]
                /\ UNCHANGED positions
           ELSE /\ positions' = [positions EXCEPT ![u][b] =
                       Position(calls[c].position.qtyUnits + calls[c].tradeQty)]
                /\ calls' = [calls EXCEPT ![c].applied = @ \cup {"buyerPosition"},
                                          ![c].pc = "findSellerPosition"]
  /\ UNCHANGED <<orders, trades, cash, now, response, otherTables>>

\* updatePositions: positionRepository.findOne for sellOrder's user; without
\* a row nothing is written and updatePortfolios starts
AsyncFindSellerPosition(c) ==
  /\ calls[c].pc = "findSellerPosition"
  /\ LET sellOrder == Head(calls[c].oppositeOrders)
         found == positions[sellOrder.userId][sellOrder.bondId]
     IN  calls' = [calls EXCEPT
           ![c].position = found,
           ![c].pc = IF found.exists THEN "saveSellerPosition" ELSE "findBuyerPortfolio"]
  /\ UNCHANGED <<orders, trades, positions, cash, now, response, otherTables>>

\* updatePositions: positionRepository.remove or save of sellerPosition
AsyncSaveSellerPosition(c) ==
  /\ calls[c].pc = "saveSellerPosition"
  /\ LET sellOrder == Head(calls[c].oppositeOrders)
         qtyUnits == calls[c].position.qtyUnits - calls[c].tradeQty
     IN  positions' = [positions EXCEPT ![sellOrder.userId][sellOrder.bondId] =
                         IF qtyUnits <= 0 THEN NoPosition ELSE Position(qtyUnits)]
  /\ calls' = [calls EXCEPT ![c].applied = @ \cup {"sellerPosition"},
                            ![c].pc = "findBuyerPortfolio"]
  /\ UNCHANGED <<orders, trades, cash, now, response, otherTables>>

\* updatePortfolios: portfolioRepository.findOne for buyOrder's user
AsyncFindBuyerPortfolio(c) ==
  /\ calls[c].pc = "findBuyerPortfolio"
  /\ calls' = [calls EXCEPT ![c].cashBalance = cash[calls[c].order.userId],
                            ![c].pc = "saveBuyerPortfolio"]
  /\ UNCHANGED <<orders, trades, positions, cash, now, response, otherTables>>

\* updatePortfolios: portfolioRepository.save(buyerPortfolio)
AsyncSaveBuyerPortfolio(c) ==
  /\ calls[c].pc = "saveBuyerPortfolio"
  /\ cash' = [cash EXCEPT ![calls[c].order.userId] =
                calls[c].cashBalance - TradeAmount(calls[c].tradePrice, calls[c].tradeQty)]
  /\ calls' = [calls EXCEPT ![c].applied = @ \cup {"buyerCash"},
                            ![c].pc = "findSellerPortfolio"]
  /\ UNCHANGED <<orders, trades, positions, now, response, otherTables>>

\* updatePortfolios: portfolioRepository.findOne for sellOrder's user
AsyncFindSellerPortfolio(c) ==
  /\ calls[c].pc = "findSellerPortfolio"
  /\ calls' = [calls EXCEPT
       ![c].cashBalance = cash[Head(calls[c].oppositeOrders).userId],
       ![c].pc = "saveSellerPortfolio"]
  /\ UNCHANGED <<orders, trades, positions, cash, now, response, otherTables>>

\* updatePortfolios: portfolioRepository.save(sellerPortfolio); executeTrade
\* emits trade.executed and returns, and the loop runs up to its next trade
AsyncSaveSellerPortfolio(c) ==
  /\ calls[c].pc = "saveSellerPortfolio"
  /\ cash' = [cash EXCEPT ![Head(calls[c].oppositeOrders).userId] =
                calls[c].cashBalance + TradeAmount(calls[c].tradePrice, calls[c].tradeQty)]
  /\ LET rest == NextMatch(calls[c].order, Tail(calls[c].oppositeOrders))
     IN  calls' = [calls EXCEPT ![c].applied = @ \cup {"sellerCash"},
                                ![c].events = @ \cup {"trade.executed"},
                                ![c].oppositeOrders = rest,
                                ![c].pc = IF rest = <<>> THEN "save" ELSE "saveTrade"]
  /\ UNCHANGED <<orders, trades, positions, now, response, otherTables>>

\* addOrder's last save never completing: a faulty variant, to test C31
\* against
AsyncSaveHangs(c) ==
  /\ calls[c].pc = "save"
  /\ UNCHANGED vars

\* addOrder: the status is set and orderRepository.save(order) inserts it
AsyncSave(c) ==
  /\ calls[c].pc = "save"
  /\ orders' = InsertOrder(orders,
                 [calls[c].order EXCEPT !.status = StatusAfterMatch(calls[c].order)], now)
  /\ now' = now + 1
  /\ calls' = [calls EXCEPT ![c].pc = "done"]
  /\ response' = Response("createOrder", Len(orders) + 1,
                           calls[c].order.userId, "order",
                           calls[c].events \cup {"order.processed"})
  /\ UNCHANGED <<trades, positions, cash, otherTables>>

\* the places of the try block where a database operation is awaited
AwaitsInTry ==
  { "validate", "find", "saveTrade", "findBuyerPosition", "saveBuyerPosition",
    "findSellerPosition", "saveSellerPosition", "findBuyerPortfolio",
    "saveBuyerPortfolio", "findSellerPortfolio", "saveSellerPortfolio", "save" }

\* the awaited database operation rejects: control passes to the catch block
AsyncThrow(c) ==
  /\ calls[c].pc \in AwaitsInTry
  /\ calls' = [calls EXCEPT ![c].pc = "catch", ![c].error = "QueryFailedError"]
  /\ UNCHANGED <<orders, trades, positions, cash, now, response, otherTables>>

\* addOrder's catch: the order is saved as CANCELLED and the error rethrown
AsyncCatch(c) ==
  /\ calls[c].pc = "catch"
  /\ orders' = InsertOrder(orders, [calls[c].order EXCEPT !.status = "CANCELLED"], now)
  /\ now' = now + 1
  /\ calls' = [calls EXCEPT ![c].pc = "done"]
  /\ response' = Response("createOrder", NoId, calls[c].order.userId,
                           calls[c].error, calls[c].events)
  /\ UNCHANGED <<trades, positions, cash, otherTables>>

AsyncSubmit ==
  \E c \in Calls, u \in Users, b \in Bonds, s \in Sides, q \in Quantities :
    \/ \E p \in Prices : AsyncCreate(c, u, b, s, "LIMIT", p, q)
    \/ AsyncCreate(c, u, b, s, "MARKET", NoPrice, q)

\* the database operation call c awaits completes and the call runs on
AsyncStepOf(c) ==
  \/ AsyncValidate(c)
  \/ AsyncFind(c)
  \/ AsyncSaveTrade(c)
  \/ AsyncFindBuyerPosition(c)
  \/ AsyncSaveBuyerPosition(c)
  \/ AsyncFindSellerPosition(c)
  \/ AsyncSaveSellerPosition(c)
  \/ AsyncFindBuyerPortfolio(c)
  \/ AsyncSaveBuyerPortfolio(c)
  \/ AsyncFindSellerPortfolio(c)
  \/ AsyncSaveSellerPortfolio(c)
  \/ AsyncSave(c)
  \/ AsyncCatch(c)

AsyncStep == \E c \in Calls : AsyncStepOf(c)

AsyncFault == \E c \in Calls : AsyncThrow(c)

NextAsync == AsyncSubmit \/ AsyncStep \/ AsyncFault \/ Cancel

SpecAsync == InitDeep /\ [][NextAsync]_vars

\* Requests racing for an order that rests in the book: the first order is
\* submitted while no other request is in flight, the requests after it
\* interleave await by await, and no database operation fails.
RaceFirstOrder ==
  /\ orders = <<>>
  /\ \A c \in Calls : calls[c].pc = "idle"
  /\ SubmitLimit

NextRace == RaceFirstOrder \/ AsyncSubmit \/ AsyncStep

SpecRace == InitDeep /\ [][NextRace]_vars

\* One request followed from its arrival to its return, on a book of up to
\* MaxBookOrders orders that were submitted before it: the matching loop makes
\* several trades, a database operation may fail, and every awaited database
\* operation completes in the end (the event loop resumes a call whose
\* promise is settled), which is the weak fairness of the call's steps.
MaxBookOrders == 2

BookSubmitLimit ==
  /\ Len(orders) < MaxBookOrders
  /\ \A c \in Calls : calls[c].pc = "idle"
  /\ \E u \in Users, b \in Bonds, s \in Sides, p \in Prices, q \in Quantities :
       SubmitOrder(u, b, s, "LIMIT", p, q)

OneSubmit ==
  \E u \in Users, b \in Bonds, s \in Sides, q \in Quantities :
    \/ \E p \in Prices : AsyncCreate(1, u, b, s, "LIMIT", p, q)
    \/ AsyncCreate(1, u, b, s, "MARKET", NoPrice, q)

NextOne == BookSubmitLimit \/ OneSubmit \/ AsyncStep \/ AsyncFault

SpecOne ==
  InitDeep /\ [][NextOne]_vars /\ \A c \in Calls : WF_vars(AsyncStepOf(c))

\* ------------------------------------------- GET orders/orderbook/:bondId
\* getOrderBook writing back what it read, every order shown stored as
\* filled to the quantity of its level: a faulty variant, to test C35 against
ReadOrderBookStoringLevels(bondId) ==
  /\ response' = Response("getOrderBook", NoId, NoUser,
                          GetOrderBook(orders, trades, bondId), {})
  /\ orders' = [i \in 1..Len(orders) |->
                  IF orders[i].bondId = bondId /\ orders[i].status = "OPEN"
                       /\ orders[i].orderType = "LIMIT"
                    THEN [orders[i] EXCEPT !.qtyFilledUnits = orders[i].qtyUnits]
                    ELSE orders[i]]
  /\ UNCHANGED <<trades, positions, cash, now, calls, otherTables>>

\* the controller returns the snapshot of the bond's book; three finds and
\* no save
ReadOrderBook(bondId) ==
  /\ response' = Response("getOrderBook", NoId, NoUser,
                          GetOrderBook(orders, trades, bondId), {})
  /\ UNCHANGED <<orders, trades, positions, cash, now, calls, otherTables>>

GetBook == \E b \in Bonds : ReadOrderBook(b)

\* the matching engine with snapshot reads between its requests
NextRead == SubmitLimit \/ SubmitMarket \/ Cancel \/ GetBook
SpecRead == InitDeep /\ [][NextRead]_vars

\* ------------------------------------- closeRepoPosition, await by await
\* A close in flight: the id it was called with, who called it (a request or
\* the daily maturity job) and, once loaded, the repoPosition entity.  The
\* helpers transferBondPosition and updateCollateral are taken as one step
\* each.
CloseRepoPositionCall(c, repoPositionId, caller) ==
  /\ calls[c].pc = "idle"
  /\ calls' = [calls EXCEPT ![c] = [ pc |-> "findRepoPosition",
                                     repoPositionId |-> repoPositionId,
                                     caller |-> caller ]]
  /\ UNCHANGED <<orders, trades, positions, cash, now, response, otherTables>>

\* a request closes a repo position
CloseRequest ==
  \E c \in Calls, r \in 1..(Len(repoPositions) + 1) :
    CloseRepoPositionCall(c, r, "request")

\* processRepoMaturities: the job finds the ACTIVE positions that end today
\* and closes each (dates are not modelled: any ACTIVE position may be one)
ProcessRepoMaturities ==
  \E c \in Calls, r \in 1..Len(repoPositions) :
    /\ repoPositions[r].status = "ACTIVE"
    /\ CloseRepoPositionCall(c, r, "job")

\* findOne and the check of the status: return false, or go on with the
\* entity as loaded
CloseFindRepoPosition(c) ==
  /\ calls[c].pc = "findRepoPosition"
  /\ LET repoPositionId == calls[c].repoPositionId
     IN  IF ~(/\ repoPositionId \in 1..Len(repoPositions)
              /\ repoPositions[repoPositionId].status = "ACTIVE")
           THEN /\ calls' = [calls EXCEPT ![c] = IdleCall]
                /\ response' = Response("closeRepoPosition", NoId, NoUser, "false", {})
           ELSE /\ calls' = [calls EXCEPT ![c] =
                               [ pc |-> "transferBondPosition",
                                 repoPositionId |-> repoPositionId,
                                 caller |-> calls[c].caller,
                                 repoPosition |-> repoPositions[repoPositionId] ]]
                /\ UNCHANGED response
  /\ UNCHANGED <<orders, trades, positions, cash, now, otherTables>>

\* the bonds go back to the lender
CloseTransferBondPosition(c) ==
  /\ calls[c].pc = "transferBondPosition"
  /\ LET repoPosition == calls[c].repoPosition
     IN  positions' = TransferBondPosition(positions,
                        repoPosition.borrowerUserId, repoPosition.lenderUserId,
                        repoPosition.bondId, repoPosition.qtyUnits)
  /\ calls' = [calls EXCEPT ![c].pc = "creditBorrower"]
  /\ UNCHANGED <<orders, trades, cash, now, response, otherTables>>

\* the collateral less the fee is credited to the borrower, as CASH
CloseCreditBorrower(c) ==
  /\ calls[c].pc = "creditBorrower"
  /\ LET repoPosition == calls[c].repoPosition
         feeAmount == FeeAmount(repoPosition.collateralAmount,
                                repoPosition.feeRate, repoPosition.daysHeld)
         netCollateral == repoPosition.collateralAmount - feeAmount
     IN  cash' = UpdateCollateral(cash, repoPosition.borrowerUserId,
                                  netCollateral, "CASH", "CREDIT")
  /\ calls' = [calls EXCEPT ![c].pc = "creditLender"]
  /\ UNCHANGED <<orders, trades, positions, now, response, otherTables>>

\* the fee is credited to the lender
CloseCreditLender(c) ==
  /\ calls[c].pc = "creditLender"
  /\ LET repoPosition == calls[c].repoPosition
         feeAmount == FeeAmount(repoPosition.collateralAmount,
                                repoPosition.feeRate, repoPosition.daysHeld)
     IN  cash' = UpdateCollateral(cash, repoPosition.lenderUserId,
                                  feeAmount, "CASH", "CREDIT")
  /\ calls' = [calls EXCEPT ![c].pc = "saveRepoPosition"]
  /\ UNCHANGED <<orders, trades, positions, now, response, otherTables>>

\* the entity is saved as CLOSED and the call returns true
CloseSaveRepoPosition(c) ==
  /\ calls[c].pc = "saveRepoPosition"
  /\ repoPositions' = [repoPositions EXCEPT ![calls[c].repoPositionId] =
                         [calls[c].repoPosition EXCEPT !.status = "CLOSED"]]
  /\ calls' = [calls EXCEPT ![c] = IdleCall]
  /\ response' = Response("closeRepoPosition", NoId,
                           calls[c].repoPosition.borrowerUserId, "true",
                           {"repo.position.closed"})
  /\ UNCHANGED <<orders, trades, positions, cash, now, marketMakers, lendingOffers>>

CloseStep ==
  \E c \in Calls :
    \/ CloseFindRepoPosition(c)
    \/ CloseTransferBondPosition(c)
    \/ CloseCreditBorrower(c)
    \/ CloseCreditLender(c)
    \/ CloseSaveRepoPosition(c)

\* lending, borrowing and closes that interleave
NextClose == RepoLend \/ RepoBorrow \/ CloseRequest \/ ProcessRepoMaturities
               \/ CloseStep
SpecClose == InitDeep /\ [][NextClose]_vars

\* ------------------------------------------------------------------ claims
\* What one SubmitOrder step added: the order it saved, the trades it logged.
IsSubmit == Len(orders') = Len(orders) + 1
Incoming == orders'[Len(orders')]
NewTradeIds == (Len(trades) + 1)..Len(trades')
\* the order of a trade that was in the book before the call
RestingOf(t) ==
  IF t.sellOrderId \in 1..Len(orders) THEN orders[t.sellOrderId]
  ELSE orders[t.buyOrderId]
Remainder(o) == o.qtyUnits - o.qtyFilledUnits

RECURSIVE SumOver(_, _, _)
\* sum of f[i] over the finite set S
SumOver(f, S, acc) ==
  IF S = {} THEN acc
  ELSE LET i == CHOOSE x \in S : TRUE
       IN  SumOver(f, S \ {i}, acc + f[i])

PositionQty(pos, u, b) == IF pos[u][b].exists THEN pos[u][b].qtyUnits ELSE 0
TotalUnits(pos, b) ==
  SumOver([u \in Users |-> PositionQty(pos, u, b)], Users, 0)

\* C1: no sequence of submitOrder calls drives a user's cash or a user's
\* position in a bond below 0.
C1_NoNegativeBalances ==
  \A u \in Users :
    /\ cash[u] >= 0
    /\ \A b \in Bonds : positions[u][b].qtyUnits >= 0

\* C2: the units of a bond held over all users are the same before and after
\* every step.
C2_UnitsConserved ==
  [][\A b \in Bonds : TotalUnits(positions', b) = TotalUnits(positions, b)]_vars

\* the owners of the BUY-side and of the SELL-side order of a new trade
BuySideOwner(t) ==
  IF Incoming.side = "BUY" THEN Incoming.userId ELSE RestingOf(t).userId
SellSideOwner(t) ==
  IF Incoming.side = "SELL" THEN Incoming.userId ELSE RestingOf(t).userId
\* what the new trades owe user u: cash and units
CashDue(u) ==
  SumOver([i \in NewTradeIds |->
             LET t == trades'[i]
                 amount == t.pricePerUnit * t.qtyUnits
             IN  (IF SellSideOwner(t) = u THEN amount ELSE 0)
                 - (IF BuySideOwner(t) = u THEN amount ELSE 0)],
          NewTradeIds, 0)
UnitsDue(u, b) ==
  SumOver([i \in NewTradeIds |->
             LET t == trades'[i]
                 q == IF t.bondId = b THEN t.qtyUnits ELSE 0
             IN  (IF BuySideOwner(t) = u THEN q ELSE 0)
                 - (IF SellSideOwner(t) = u THEN q ELSE 0)],
          NewTradeIds, 0)

\* C3: every trade debits price x quantity from the owner of the BUY-side
\* order and credits it to the owner of the SELL-side order, and moves
\* quantity units from the SELL-side owner to the BUY-side owner, whichever
\* side the incoming order is on.
C3_SettlementBySide ==
  [][IsSubmit =>
       \A u \in Users :
         /\ cash'[u] = cash[u] + CashDue(u)
         /\ \A b \in Bonds :
              PositionQty(positions', u, b) =
                PositionQty(positions, u, b) + UnitsDue(u, b)]_vars

\* C4: the four ledger effects of one trade (buyer cash, seller cash, buyer
\* position, seller position) apply together or not at all: no state, also
\* none after a database operation has thrown and none another request can
\* run in, has a strict subset of them applied.
C4_SettlementAtomic ==
  \A c \in Calls : calls[c].applied \in {{}, LedgerEffects}

\* units the call traded against the resting order with id rid, over the new
\* trades with index below upTo
TradedInCall(rid, upTo) ==
  LET ids == { i \in NewTradeIds : i < upTo /\ RestingOf(trades'[i]).id = rid }
  IN  SumOver([i \in ids |-> trades'[i].qtyUnits], ids, 0)
\* the resting orders of the book: OPEN or PARTIAL with a remainder
IsResting(o) == o.status \in {"OPEN", "PARTIAL"} /\ Remainder(o) > 0

\* C5: an incoming order never trades with a resting order while another
\* compatible resting order of the same side with a better price, or the same
\* price and an earlier creation time, still has unfilled remainder.
C5_PriceTimePriority ==
  [][IsSubmit =>
       \A i \in NewTradeIds :
         LET r == RestingOf(trades'[i])
         IN  ~ \E j \in 1..Len(orders) :
                 /\ j # r.id
                 /\ orders[j].bondId = r.bondId
                 /\ orders[j].side = r.side
                 /\ IsResting(orders[j])
                 /\ CanMatch(Incoming, orders[j])
                 /\ OrderedBefore(orders[j], r, r.side)
                 /\ Remainder(orders[j]) - TradedInCall(j, i) > 0]_vars

\* C6: every trade executes at the limit price of the order that was already
\* in the book.
C6_TradeAtRestingPrice ==
  [][IsSubmit =>
       \A i \in NewTradeIds :
         trades'[i].pricePerUnit = RestingOf(trades'[i]).priceLimit]_vars

\* an incoming SELL LIMIT has traded against a resting BUY at a price above
\* its own limit
C6_Witness ==
  /\ Len(trades) = 1
  /\ \E i \in 1..Len(orders) :
       /\ orders[i].orderType = "LIMIT"
       /\ orders[i].side = "SELL"
       /\ orders[i].qtyFilledUnits > 0
       /\ orders[i].priceLimit < trades[1].pricePerUnit
       /\ trades[1].sellOrderId # i

C8_RestingFillStored ==
  [][IsSubmit =>
       \A i \in NewTradeIds :
         LET r == RestingOf(trades'[i])
             filled == r.qtyFilledUnits + TradedInCall(r.id, Len(trades') + 1)
         IN  /\ orders'[r.id].qtyFilledUnits = filled
             /\ filled = r.qtyUnits => orders'[r.id].status = "EXECUTED"]_vars

\* C9: a LIMIT order resting PARTIAL stays matchable: an accepted incoming
\* order that is compatible with it does not end with a remainder while the
\* PARTIAL order still has one.
C9_PartialStaysMatchable ==
  [][IsSubmit =>
       \A j \in 1..Len(orders) :
         ( /\ orders[j].status = "PARTIAL"
           /\ orders[j].orderType = "LIMIT"
           /\ Remainder(orders[j]) > 0
           /\ orders[j].bondId = Incoming.bondId
           /\ orders[j].side = OppositeSide(Incoming.side)
           /\ ValidateOrder(Incoming, positions, cash)
           /\ CanMatch(Incoming, orders[j]) )
         => \/ Remainder(Incoming) = 0
            \/ Remainder(orders[j]) = TradedInCall(j, Len(trades') + 1)]_vars

\* the status the order state machine gives an order that was not cancelled
StateMachineOK(o) ==
  /\ 0 <= o.qtyFilledUnits /\ o.qtyFilledUnits <= o.qtyUnits
  /\ o.status = "EXECUTED" <=> o.qtyFilledUnits = o.qtyUnits
  /\ (o.status # "CANCELLED" /\ 0 < o.qtyFilledUnits /\ o.qtyFilledUnits < o.qtyUnits)
       => o.status = "PARTIAL"

\* C10: every stored order has 0 <= filled <= total, is EXECUTED exactly when
\* filled = total, and is PARTIAL when it is not cancelled and
\* 0 < filled < total.
C10_OrderStateMachine ==
  \A i \in 1..Len(orders) : StateMachineOK(orders[i])

\* C11: a MARKET order that has unfilled remainder after matching, whether it
\* filled partly or not at all, is stored CANCELLED.
C11_MarketRemainderCancelled ==
  \A i \in 1..Len(orders) :
    (orders[i].orderType = "MARKET" /\ Remainder(orders[i]) > 0)
      => orders[i].status = "CANCELLED"

\* the orders of a sequence of book levels
RECURSIVE OrdersOfLevels(_)
OrdersOfLevels(levels) ==
  IF levels = <<>> THEN {}
  ELSE { Head(levels).orders[n] : n \in 1..Len(Head(levels).orders) }
       \cup OrdersOfLevels(Tail(levels))
\* the orders a bond's order book shows
BookOrdersOf(ords, trds, b) ==
  OrdersOfLevels(GetOrderBook(ords, trds, b).bids)
    \cup OrdersOfLevels(GetOrderBook(ords, trds, b).asks)
BookOrders(b) == BookOrdersOf(orders, trades, b)
\* the orders matchOrder would offer an incoming order of either side
Counterparties(b) ==
  UNION { { FindOpenOrders(orders, b, side)[n] :
              n \in 1..Len(FindOpenOrders(orders, b, side)) } : side \in Sides }

\* C12: in no reachable state does a MARKET order rest in a bond's order
\* book or get offered as a resting counterparty; a MARKET order that filled
\* nothing is stored CANCELLED.
C12_MarketNeverRests ==
  /\ \A b \in Bonds :
       \A o \in BookOrders(b) \cup Counterparties(b) : o.orderType # "MARKET"
  /\ \A i \in 1..Len(orders) :
       (orders[i].orderType = "MARKET" /\ orders[i].qtyFilledUnits = 0)
         => orders[i].status = "CANCELLED"

\* the errors of the interface and the Error the code throws for each
InsufficientFunds == "Insufficient cash balance"
InsufficientPosition == "Insufficient bond position"
\* the call did no matching: no trade, no ledger change, no fill
NoMatching ==
  /\ trades' = trades
  /\ positions' = positions
  /\ cash' = cash
  /\ Incoming.qtyFilledUnits = 0

\* C13: a LIMIT BUY is accepted only if the user's cash is at least limit
\* price x quantity; otherwise the call fails with InsufficientFunds and no
\* matching has happened.
C13_LimitBuyNeedsCash ==
  [][(IsSubmit /\ Incoming.orderType = "LIMIT" /\ Incoming.side = "BUY") =>
       LET required == Incoming.priceLimit * Incoming.qtyUnits
       IN  /\ response'.result = "order" => cash[Incoming.userId] >= required
           /\ cash[Incoming.userId] < required =>
                /\ response'.result = InsufficientFunds
                /\ NoMatching]_vars

\* a LIMIT BUY of a user with some cash, but not enough, was refused while a
\* SELL order it could have traded with was OPEN
C13_Witness ==
  /\ response.op = "createOrder"
  /\ response.result = InsufficientFunds
  /\ Len(orders) > 0
  /\ LET o == orders[Len(orders)]
     IN  /\ o.orderType = "LIMIT" /\ o.side = "BUY"
         /\ o.status = "CANCELLED" /\ o.qtyFilledUnits = 0
         /\ cash[o.userId] > 0
         /\ \E j \in 1..Len(orders) :
              /\ orders[j].side = "SELL" /\ orders[j].status = "OPEN"
              /\ orders[j].priceLimit <= o.priceLimit

\* cash committed by user u's resting BUY orders: limit price x remainder
CommittedCash(u) ==
  LET ids == { i \in 1..Len(orders) : /\ orders[i].userId = u
                                       /\ orders[i].side = "BUY"
                                       /\ IsResting(orders[i]) }
  IN  SumOver([i \in ids |-> OrZero(orders[i].priceLimit) * Remainder(orders[i])],
              ids, 0)

\* C14: for every user, limit price x unfilled remainder summed over the
\* user's resting BUY orders does not exceed the user's cash balance.
C14_CashReserved ==
  \A u \in Users : CommittedCash(u) <= cash[u]

\* C15: a SELL order, LIMIT or MARKET, is accepted only if the user's
\* position in the bond holds at least the order quantity; otherwise the call
\* fails with InsufficientPosition and no matching has happened.
C15_SellNeedsPosition ==
  [][(IsSubmit /\ Incoming.side = "SELL") =>
       LET held == PositionQty(positions, Incoming.userId, Incoming.bondId)
       IN  /\ response'.result = "order" => held >= Incoming.qtyUnits
           /\ held < Incoming.qtyUnits =>
                /\ response'.result = InsufficientPosition
                /\ NoMatching]_vars

\* a SELL of a user who holds some units, but fewer than the order asks, was
\* refused
C15_Witness ==
  /\ response.op = "createOrder"
  /\ response.result = InsufficientPosition
  /\ Len(orders) > 0
  /\ LET o == orders[Len(orders)]
     IN  /\ o.side = "SELL"
         /\ o.status = "CANCELLED" /\ o.qtyFilledUnits = 0
         /\ positions[o.userId][o.bondId].exists
         /\ positions[o.userId][o.bondId].qtyUnits > 0

\* the interface's error for a MARKET BUY that finds no ask; the code has no
\* Error of its own for it
NoLiquidity == "No liquidity"

\* C16: a MARKET BUY is accepted only if the best resting ask x quantity does
\* not exceed the user's cash, and is rejected with NoLiquidity, without any
\* matching, when the bond has no ask.
C16_MarketBuyEstimated ==
  [][(IsSubmit /\ Incoming.orderType = "MARKET" /\ Incoming.side = "BUY") =>
       LET asks == FindOpenOrders(orders, Incoming.bondId, "SELL")
       IN  /\ asks = <<>> =>
                (response'.result = NoLiquidity /\ NoMatching)
           /\ (asks # <<>> /\ response'.result = "order") =>
                OrZero(asks[1].priceLimit) * Incoming.qtyUnits
                  <= cash[Incoming.userId]]_vars

\* C17: a submitOrder that fails validation leaves every bond's order book,
\* all positions, all cash balances and the trade log as they were before
\* the call.
C17_RejectionChangesNothing ==
  [][(IsSubmit /\ response'.result \in {InsufficientFunds, InsufficientPosition}) =>
       /\ \A b \in Bonds :
            GetOrderBook(orders', trades', b) = GetOrderBook(orders, trades, b)
       /\ positions' = positions
       /\ cash' = cash
       /\ trades' = trades]_vars

\* an order was refused by validation while an OPEN order it could have
\* traded with was in the book, after earlier trades
C17_Witness ==
  /\ response.op = "createOrder"
  /\ response.result \in {InsufficientFunds, InsufficientPosition}
  /\ Len(trades) > 0
  /\ Len(orders) > 0
  /\ LET o == orders[Len(orders)]
     IN  /\ o.status = "CANCELLED"
         /\ \E j \in 1..Len(orders) :
              /\ orders[j].side = OppositeSide(o.side)
              /\ orders[j].status = "OPEN"
              /\ CanMatch(o, orders[j])

\* a step that answers a cancel request, and the request's inputs
IsCancel == response'.op = "cancelOrder"
CancelledId == response'.orderId
Canceller == response'.userId
\* why the interface refuses cancel(orderId, userId); "none" when it does not
CancelFailure(ords, orderId, userId) ==
  IF orderId \notin 1..Len(ords) THEN "NotFound"
  ELSE IF ords[orderId].userId # userId THEN "Forbidden"
  ELSE IF ords[orderId].status \in {"EXECUTED", "CANCELLED"} THEN "InvalidState"
  ELSE "none"
\* the cancel requests that could be made in the current state
CancelInputs == (1..(Len(orders) + 1)) \X Users
\* the result given is not the one a refusal for another reason is given
ToldApart(kind, result) ==
  \A in \in CancelInputs :
    CancelFailure(orders, in[1], in[2]) \notin {"none", kind}
      => CancelResult(orders, in[1], in[2]) # result

\* C18: a cancel that fails leaves the order unchanged and says why: the
\* result for an order that does not exist (NotFound), for another user's
\* order (Forbidden) and for an EXECUTED or CANCELLED order (InvalidState)
\* are three different results, none of them the result of a success.
C18_CancelFailuresDistinct ==
  [][IsCancel =>
       LET kind == CancelFailure(orders, CancelledId, Canceller)
       IN  kind # "none" =>
             /\ orders' = orders
             /\ response'.result # "true"
             /\ ToldApart(kind, response'.result)]_vars

\* C19: the owner's cancel of a PARTIAL order succeeds: the order becomes
\* CANCELLED and leaves the book, its filled quantity and the trades stay.
C19_PartialCancellable ==
  [][(IsCancel /\ CancelledId \in 1..Len(orders)) =>
       LET o == orders[CancelledId]
       IN  (o.userId = Canceller /\ o.status = "PARTIAL") =>
             /\ response'.result = "true"
             /\ orders'[CancelledId].status = "CANCELLED"
             /\ orders'[CancelledId].qtyFilledUnits = o.qtyFilledUnits
             /\ \A ord \in BookOrdersOf(orders', trades', o.bondId) :
                  ord.id # o.id
             /\ trades' = trades]_vars

\* C20: cancelling an order that is already CANCELLED or EXECUTED is refused
\* as InvalidState, a result told apart from the other refusals, and changes
\* nothing: no order, book, ledger entry or trade, and no event is emitted;
\* so does every repetition of the call.
C20_CancelIdempotent ==
  [][(IsCancel /\ CancelFailure(orders, CancelledId, Canceller) = "InvalidState") =>
       /\ orders' = orders
       /\ trades' = trades
       /\ positions' = positions
       /\ cash' = cash
       /\ response'.events = {}
       /\ response'.result # "true"
       /\ ToldApart("InvalidState", response'.result)]_vars

\* the effect alone: the refused cancel of a CANCELLED or EXECUTED order
\* changes nothing and emits nothing
RefusedCancelNoEffect ==
  [][(IsCancel /\ CancelFailure(orders, CancelledId, Canceller) = "InvalidState") =>
       /\ orders' = orders
       /\ trades' = trades
       /\ positions' = positions
       /\ cash' = cash
       /\ response'.events = {}
       /\ response'.result # "true"]_vars

\* the statuses no operation leaves
Terminal == {"EXECUTED", "CANCELLED"}

\* the trades one step added to the log
AddedTrades == { trades'[k] : k \in (Len(trades) + 1)..Len(trades') }

\* C21: EXECUTED and CANCELLED are absorbing: an order that is stored with
\* one of them keeps its status and its filled quantity in every later
\* operation (order submission, cancel, market-maker registration, approval
\* and quote replacement), and no trade logged later names it.  It holds
\* of SpecMm, where the operations run one after the other, and fails of
\* SpecAsync, where a match that has loaded an order trades with it after
\* the order was cancelled.
C21_TerminalAbsorbing ==
  [][\A i \in 1..Len(orders) :
       orders[i].status \in Terminal =>
         /\ i <= Len(orders')
         /\ orders'[i].status = orders[i].status
         /\ orders'[i].qtyFilledUnits = orders[i].qtyFilledUnits
         /\ \A t \in AddedTrades : t.buyOrderId # i /\ t.sellOrderId # i]_vars

\* the places of a call where a trade is saved and its settlement is under way
TradeInHand ==
  { "findBuyerPosition", "saveBuyerPosition", "findSellerPosition",
    "saveSellerPosition", "findBuyerPortfolio", "saveBuyerPortfolio",
    "findSellerPortfolio", "saveSellerPortfolio" }

\* the stored order call c is trading with
OppositeOrderOf(c) == Head(calls[c].oppositeOrders).id

\* C22: matching is serializable per bond; in particular two concurrent
\* incoming orders never both trade with the same resting order for a
\* combined quantity above its remainder.
C22_NoConcurrentOverfill ==
  \A c, d \in Calls :
    (/\ c # d
     /\ calls[c].pc \in TradeInHand
     /\ calls[d].pc \in TradeInHand
     /\ OppositeOrderOf(c) = OppositeOrderOf(d))
    => calls[c].tradeQty + calls[d].tradeQty <= Remainder(orders[OppositeOrderOf(c)])

\* no request is in flight and none has thrown
Quiescent ==
  \A c \in Calls : calls[c].pc \in {"idle", "done"} /\ calls[c].error = "none"

TotalCash == SumOver(cash, Users, 0)

\* C23: concurrent settlements lose no update of a user's cash: when all
\* requests have returned, each user's cash is the initial cash plus the
\* credits minus the debits of the trades, so that the cash of all users
\* together is what it was at the start (a trade credits what it debits).
C23_NoLostUpdate ==
  Quiescent => TotalCash = NumUsers * InitCash

\* C24: no trade is executed against an order after its cancel has
\* succeeded: a trade that is logged never names an order stored as
\* CANCELLED.
C24_NoTradeAfterCancel ==
  [][\A t \in AddedTrades :
       t.sellOrderId \in 1..Len(orders) =>
         orders[t.sellOrderId].status # "CANCELLED"]_vars

\* C25: when a database operation fails while an incoming LIMIT order is
\* matched, the failing step leaves none or all of the ledger writes of the
\* trade in hand, and the order's unfilled remainder is stored OPEN or
\* PARTIAL, not dropped and not cancelled.
C25_FailureKeepsRemainder ==
  [][\A c \in Calls :
       (/\ calls[c].pc = "catch"
        /\ calls[c].error = "QueryFailedError"
        /\ calls[c].order.orderType = "LIMIT"
        /\ Remainder(calls[c].order) > 0
        /\ calls'[c].pc = "done")
       => /\ calls[c].applied \in {{}, LedgerEffects}
          /\ Len(orders') = Len(orders) + 1
          /\ orders'[Len(orders')].status \in {"OPEN", "PARTIAL"}]_vars

\* the first trade of the step, and whether the owner of its SELL side holds
\* fewer units than it trades (no position row counting as 0 units)
FirstTrade == trades'[Len(trades) + 1]
SellerShort ==
  /\ IsSubmit
  /\ NewTradeIds # {}
  /\ PositionQty(positions, SellSideOwner(FirstTrade), FirstTrade.bondId)
       < FirstTrade.qtyUnits

\* C26: settling a trade whose seller holds fewer units than the trade
\* quantity fails and aborts the operation: the request that made the trade
\* does not return its order as processed.
C26_ShortSellerRejected ==
  [][SellerShort => response'.result # "order"]_vars

\* C27: the trade log is append-only: a step leaves every trade of the log
\* as it is and in its place, adding trades only behind them, and the
\* identifiers of the log increase in the order the trades were executed.
C27_TradeLogAppendOnly ==
  [][/\ Len(trades') >= Len(trades)
     /\ \A k \in 1..Len(trades) : trades'[k] = trades[k]
     /\ \A k, l \in 1..Len(trades') :
          k < l => trades'[k].id < trades'[l].id]_vars

\* two trades are logged and a later request, a cancel, was carried out
C27_Witness ==
  /\ Len(trades) >= 2
  /\ response.op = "cancelOrder"
  /\ response.result = "true"

\* C28: only submitOrder and cancel change the orders (the set, a status, a
\* filled quantity), and only the settlement of a trade changes positions
\* and cash: a step that changes the orders is a createOrder or a
\* cancelOrder request, and a step that changes a position or a cash
\* balance logs a trade.
C28_OnlyEngineWrites ==
  [][/\ orders' # orders => response'.op \in {"createOrder", "cancelOrder"}
     /\ (positions' # positions \/ cash' # cash) => Len(trades') > Len(trades)]_vars

\* the levels the snapshot of bond b shows for a side
SnapshotSide(b, side) ==
  IF side = "BUY" THEN GetOrderBook(orders, trades, b).bids
  ELSE GetOrderBook(orders, trades, b).asks

\* the quantity the levels show at price p, 0 when no level has that price
ShownQuantity(levels, p) ==
  LET at == { n \in 1..Len(levels) : levels[n].price = p }
  IN  SumOver([n \in at |-> levels[n].quantity], at, 0)

\* total - filled over the OPEN and PARTIAL orders of the side at price p
RestingQuantity(b, side, p) ==
  LET at == { i \in 1..Len(orders) :
                /\ orders[i].bondId = b
                /\ orders[i].side = side
                /\ orders[i].priceLimit = p
                /\ orders[i].status \in {"OPEN", "PARTIAL"} }
  IN  SumOver([i \in at |-> Remainder(orders[i])], at, 0)

\* C29: the snapshot of a bond is a projection of its resting orders: per
\* side, the quantity shown at a price is the sum of total - filled over the
\* OPEN and PARTIAL orders of the side at that price, the levels are ordered
\* best first (bids by descending, asks by ascending price), and no more
\* than the depth are returned.
C29_BookIsProjection ==
  \A b \in Bonds, side \in Sides :
    LET levels == SnapshotSide(b, side)
    IN  /\ \A p \in Prices : ShownQuantity(levels, p) = RestingQuantity(b, side, p)
        /\ \A n, m \in 1..Len(levels) :
             n < m => IF side = "BUY" THEN levels[n].price > levels[m].price
                                      ELSE levels[n].price < levels[m].price
        /\ Len(levels) <= BookDepth

\* C30: no stored position record has a quantity of 0 or below: a position
\* that a settled trade (or a repo transfer) brings to 0 is removed, and a
\* record is created with a positive quantity only.
C30_NoEmptyPosition ==
  \A u \in Users, b \in Bonds :
    positions[u][b].exists => positions[u][b].qtyUnits > 0

\* user 1 has sold the units it was seeded with and its record is gone;
\* user 2, seeded without a record, holds them
C30_Witness ==
  /\ Len(trades) > 0
  /\ \A b \in Bonds :
       /\ ~positions[1][b].exists
       /\ positions[2][b].exists
       /\ positions[2][b].qtyUnits = InitUnits

\* the ledger writes updatePositions and updatePortfolios make for every trade
\* (the seller's position is written only when the seller has a row, C26)
WritesOfEveryTrade == {"buyerPosition", "buyerCash", "sellerCash"}

FilledBefore(k) ==
  LET earlier == { i \in NewTradeIds : i < k }
  IN  SumOver([i \in earlier |-> trades'[i].qtyUnits], earlier, 0)

\* C32: every trade has a quantity above 0 that is the minimum of the
\* remainder of the incoming order and the remainder of the resting order
\* (total - filled, as the orders are when the match is made).
C32_TradeQuantity ==
  [][IsSubmit =>
       \A k \in NewTradeIds :
         /\ trades'[k].qtyUnits > 0
         /\ trades'[k].qtyUnits =
              Min(Incoming.qtyUnits - FilledBefore(k),
                  Remainder(RestingOf(trades'[k])))]_vars

\* the third order was filled by two trades of 1 unit, one with each of the
\* two orders before it
C32_Witness ==
  /\ Len(orders) >= 3
  /\ Len(trades) = 2
  /\ trades[1].qtyUnits = 1
  /\ trades[2].qtyUnits = 1
  /\ trades[1].sellOrderId # trades[2].sellOrderId
  /\ orders[1].side = orders[2].side
  /\ orders[3].qtyFilledUnits = 2

\* the order is shown by the book of its bond, in a level of its own price
RestsAtOwnPrice(o, ords, trds) ==
  \E side \in {"bids", "asks"} :
    LET levels == GetOrderBook(ords, trds, o.bondId)[side]
    IN  \E n \in 1..Len(levels) :
          /\ levels[n].price = o.priceLimit
          /\ \E m \in 1..Len(levels[n].orders) : levels[n].orders[m].id = o.id

\* C33: after matching, a LIMIT order with a remainder rests in the book at
\* its own limit price, PARTIAL when it has a fill and OPEN when it has
\* none; an order without remainder is EXECUTED and does not rest.
C33_LimitRemainderRests ==
  [][(IsSubmit /\ response'.result = "order") =>
       /\ (Incoming.orderType = "LIMIT" /\ Remainder(Incoming) > 0) =>
            /\ Incoming.status = IF Incoming.qtyFilledUnits > 0 THEN "PARTIAL" ELSE "OPEN"
            /\ RestsAtOwnPrice(Incoming, orders', trades')
       /\ Remainder(Incoming) = 0 =>
            /\ Incoming.status = "EXECUTED"
            /\ ~RestsAtOwnPrice(Incoming, orders', trades')]_vars

\* C34: a successful cancel changes the status of its order to CANCELLED
\* and takes the order out of the book, and nothing else: the order's
\* filled quantity, the other orders, the trades, the positions and the
\* cash balances stay.
C34_CancelChangesStatusOnly ==
  [][(IsCancel /\ response'.result = "true") =>
       /\ CancelledId \in 1..Len(orders)
       /\ orders' = [orders EXCEPT ![CancelledId].status = "CANCELLED"]
       /\ orders[CancelledId] \in BookOrders(orders[CancelledId].bondId)
       /\ \A o \in BookOrdersOf(orders', trades', orders[CancelledId].bondId) :
            o.id # CancelledId
       /\ BookOrdersOf(orders', trades', orders[CancelledId].bondId)
            = BookOrders(orders[CancelledId].bondId) \ {orders[CancelledId]}
       /\ trades' = trades
       /\ positions' = positions
       /\ cash' = cash]_vars

\* an order was cancelled that had traded, while another order of its
\* owner is still in the book
C34_Witness ==
  /\ response.op = "cancelOrder"
  /\ response.result = "true"
  /\ \E t \in 1..Len(trades) : trades[t].sellOrderId = response.orderId
  /\ \E i \in 1..Len(orders) :
       /\ i # response.orderId
       /\ orders[i].status = "OPEN"
       /\ orders[i].userId = response.userId


\* C35: a getOrderBook step changes no order, no trade, no position and no
\* cash balance (nor the clock, the other tables or a call in flight), and
\* returns the snapshot of that unchanged state; the requests after it start
\* from the state the requests before it left.
C35_ReadOnlySnapshot ==
  [][response'.op = "getOrderBook" =>
       /\ orders' = orders
       /\ trades' = trades
       /\ positions' = positions
       /\ cash' = cash
       /\ now' = now
       /\ calls' = calls
       /\ otherTables' = otherTables
       /\ \E b \in Bonds :
            response'.result = GetOrderBook(orders', trades', b)]_vars

\* a snapshot was read of a book with a level, after a trade
C35_Witness ==
  /\ response.op = "getOrderBook"
  /\ response.result.bids # <<>>
  /\ response.result.lastPrice # NoPrice
  /\ \E i \in 1..Len(orders) : orders[i].status = "PARTIAL"


\* units executed by the trades that reference the order with that id, as
\* buy order or as sell order
ExecutedFor(id) ==
  LET refs == { t \in 1..Len(trades) :
                  trades[t].buyOrderId = id \/ trades[t].sellOrderId = id }
  IN  SumOver([t \in refs |-> trades[t].qtyUnits], refs, 0)

\* C36: for every order the quantities of the trades that reference it add
\* up to its stored filled quantity, which does not exceed its total
\* quantity.
C36_FillEqualsTrades ==
  \A i \in 1..Len(orders) :
    /\ ExecutedFor(i) = orders[i].qtyFilledUnits
    /\ orders[i].qtyFilledUnits <= orders[i].qtyUnits
    /\ ExecutedFor(i) <= orders[i].qtyUnits


\* C37: a bond's book is not crossed: no resting BUY order of the bond has a
\* limit price at or above the limit price of a resting SELL order of the
\* bond.  (The requests of SpecMm run one at a time: no submitOrder is in
\* progress in any of its states.)
C37_BookNotCrossed ==
  \A i, j \in 1..Len(orders) :
    ( /\ orders[i].bondId = orders[j].bondId
      /\ orders[i].side = "BUY" /\ orders[j].side = "SELL"
      /\ orders[i].orderType = "LIMIT" /\ orders[j].orderType = "LIMIT"
      /\ IsResting(orders[i]) /\ IsResting(orders[j]) )
    => orders[i].priceLimit < orders[j].priceLimit


\* C38: every trade of the log pairs two distinct stored orders of the
\* trade's bond, the one recorded as buy order a BUY and the one recorded as
\* sell order a SELL.
C38_TradePairsBuyAndSell ==
  \A t \in 1..Len(trades) :
    /\ trades[t].buyOrderId \in 1..Len(orders)
    /\ trades[t].sellOrderId \in 1..Len(orders)
    /\ trades[t].buyOrderId # trades[t].sellOrderId
    /\ orders[trades[t].buyOrderId].bondId = trades[t].bondId
    /\ orders[trades[t].sellOrderId].bondId = trades[t].bondId
    /\ orders[trades[t].buyOrderId].side = "BUY"
    /\ orders[trades[t].sellOrderId].side = "SELL"


\* C39: a submission that throws stores its order as CANCELLED and leaves
\* nothing else behind: when its catch block has run, the log holds no trade
\* of the submission (the entity's filled quantity, which executeTrade raises
\* with every trade it has saved, is 0) and no ledger write of it is applied.
C39_ThrowLeavesNothing ==
  [][\A c \in Calls :
       (calls[c].pc = "catch" /\ calls'[c].pc = "done")
       => /\ Len(orders') = Len(orders) + 1
          /\ orders'[Len(orders')].status = "CANCELLED"
          /\ calls[c].order.qtyFilledUnits = 0
          /\ calls[c].applied = {}
          /\ trades' = trades /\ positions' = positions /\ cash' = cash]_vars


\* the closes that have passed the check of the status and are at work
ClosePlaces ==
  { "transferBondPosition", "creditBorrower", "creditLender", "saveRepoPosition" }
Closing(c, r) == calls[c].pc \in ClosePlaces /\ calls[c].repoPositionId = r

====
